---- MODULE Spec2Model ----
(***************************************************************************)
(* Revision allocation for working files and output files of zou.          *)
(*                                                                         *)
(* The REST resources of zou/app/blueprints/files/resources.py are         *)
(* translated handler by handler; every access to the file record store is *)
(* one step of a handler, so that requests served by concurrent workers    *)
(* interleave between their store accesses.  files_service (the store      *)
(* and its allocator) is not part of the sources at hand: its operations   *)
(* follow sections 3, 4.4 and 5 of the specification.                      *)
(***************************************************************************)
EXTENDS Integers, Sequences, FiniteSets, TLC

\* ------------------------------------------------------------------ bounds
NumCallers == 2      \* concurrent request-handling workers
MaxRevision == 2     \* largest revision a caller pins
MaxRequests == 2     \* requests issued in a run

Callers == 1..NumCallers
None == "none"

\* Retry budget of the allocator (section 4.4: "a bounded number of times").
MaxRetries == 1

\* ---------------------------------------------------------------- fixtures
Tasks == {"task1"}
Names == {"main", "alt"}        \* working file names
OutputNames == {"main"}         \* output file names
Entity == "asset1"
OutputType == "geometry"
TaskType == "modeling"
AssetInstance == "instance1"
TemporalEntity == "shot1"
Project == "kitsu"

\* Separators a caller chooses ("sep" / "separator"); "/" is the default of the
\* argument parsers and of file_tree_service.
DefaultSep == "/"
Seps == {"/", "\\"}

\* nb_elements of an output file: 1 is a single file, more is a sequence.
NbElements == {1, 2}

\* The entity a task belongs to (tasks_service.get_task(task_id)["entity_id"]).
task_entity(task_id) == Entity

\* The asset an asset instance places (asset_instance["asset_id"]).
instance_asset(asset_instance_id) == Entity

\* ---------------------------------------------------------- versioning key
\* Section 3: (entity_id, output_type_id | none, task_type_id | none, name,
\* asset_instance_id | none, temporal_entity_id | none); a working file lineage
\* is the one of its task and name.
WorkingKey(task_id, name) ==
    [entity_id |-> task_entity(task_id), task_id |-> task_id,
     output_type_id |-> None, task_type_id |-> None, name |-> name,
     asset_instance_id |-> None, temporal_entity_id |-> None]

OutputKey(entity_id, output_type_id, task_type_id, name, asset_instance_id, temporal_entity_id) ==
    [entity_id |-> entity_id, task_id |-> None,
     output_type_id |-> output_type_id, task_type_id |-> task_type_id,
     name |-> name, asset_instance_id |-> asset_instance_id,
     temporal_entity_id |-> temporal_entity_id]

WorkingKeys == {WorkingKey(t, n) : t \in Tasks, n \in Names}
EntityOutputKeys ==
    {OutputKey(Entity, OutputType, TaskType, n, None, None) : n \in OutputNames}
InstanceOutputKeys ==
    {OutputKey(instance_asset(AssetInstance), OutputType, TaskType, n,
               AssetInstance, TemporalEntity) : n \in OutputNames}
OutputKeys == EntityOutputKeys \cup InstanceOutputKeys
Keys == WorkingKeys \cup OutputKeys

NoKey == WorkingKey(None, None)
\* The parsed arguments of a request.  revision_is_text: the revision was given
\* in the body and parsed without type=int, so that it is a text ("0" != 0).
Args(route, key, rev) ==
    [route |-> route, key |-> key, revision |-> rev, revision_is_text |-> FALSE,
     sep |-> DefaultSep, nb_elements |-> 1, id |-> 0, tree_name |-> None,
     working_file_id |-> 0, query |-> "", admin |-> FALSE]

NoArgs == Args(None, NoKey, 0)

\* What a handler returns: the status, the revision of the record created or
\* the next revision answered, and the folder path and file name returned.
Reply(status, rev, e) ==
    [status |-> status, revision |-> rev, epoch |-> e,
     folder_path |-> "", file_name |-> ""]

NoResponse == Reply(0, 0, 0)
NoQuery == [next_revision |-> 0, epoch |-> 0]

VARIABLES
    working_files,   \* WorkingFile rows, in creation order
    output_files,    \* OutputFile rows, in creation order
    pc,              \* position of each worker in the handler it runs
    args,            \* the request a worker serves
    revision,        \* the handler's local variable `revision`
    retries,         \* collisions the allocator has retried for the request
    output_file,     \* the handler's local variable `output_file` (its id)
    response,        \* what the handler returned
    nb_requests,     \* requests issued so far
    log,             \* history: the successful creations, in order
    fresh,           \* history: the next-revision answer current when a request began
    file_tree,       \* the file tree of the project (project["file_tree"])
    assigned,        \* the tasks assigned to the current user
    deleted,         \* history: the ids of the records deleted
    softwares,       \* Software rows, by name
    assets,          \* the assets of the store
    persons,         \* the persons of the store
    index,           \* the documents of the asset index
    body,            \* the body of the answer of each worker's last search
    consulted,       \* history: the services each worker's last search called
    expanded         \* the last expansion of a pattern

\* The state of the search: the stores it reads, its index and its answers.
search_vars == <<assets, persons, index, body, consulted>>

vars == <<working_files, output_files, pc, args, revision, retries,
          output_file, response, nb_requests, log, fresh,
          file_tree, assigned, deleted, softwares, search_vars, expanded>>

\* ------------------------------------------------------------------ helpers
Range(s) == {s[i] : i \in 1..Len(s)}

MaxOf(S) == CHOOSE x \in S : \A y \in S : y <= x

\* The text s holds the text sub.
Contains(s, sub) ==
    \E i \in 1..(Len(s) - Len(sub) + 1) : SubSeq(s, i, i + Len(sub) - 1) = sub

key_of(row) ==
    [entity_id |-> row.entity_id, task_id |-> row.task_id,
     output_type_id |-> row.output_type_id, task_type_id |-> row.task_type_id,
     name |-> row.name, asset_instance_id |-> row.asset_instance_id,
     temporal_entity_id |-> row.temporal_entity_id]

Row(id, key, rev, path) ==
    [id |-> id, entity_id |-> key.entity_id, task_id |-> key.task_id,
     output_type_id |-> key.output_type_id, task_type_id |-> key.task_type_id,
     name |-> key.name, asset_instance_id |-> key.asset_instance_id,
     temporal_entity_id |-> key.temporal_entity_id,
     revision |-> rev, path |-> path, comment |-> "", updated_at |-> 0,
     working_file_id |-> 0]

\* The table a key's lineage lives in.
table(key) == IF key.task_id # None THEN working_files ELSE output_files

revisions(rows, key) == {r.revision : r \in {x \in Range(rows) : key_of(x) = key}}

\* Number of creations a key has seen.
epoch(key) == Cardinality({i \in 1..Len(log) : log[i].key = key})

\* ------------------------------------------------------------ files_service
\* FileRecordStore, "max revision for key": max(revision) + 1, 1 when the key
\* has no record.
next_revision(rows, key) ==
    IF revisions(rows, key) = {} THEN 1 ELSE MaxOf(revisions(rows, key)) + 1

get_next_working_revision(task_id, name) ==
    next_revision(working_files, WorkingKey(task_id, name))

get_next_working_file_revision(task_id, name) ==
    next_revision(working_files, WorkingKey(task_id, name))

get_next_output_file_revision(entity_id, output_type_id, task_type_id, name, asset_instance_id, temporal_entity_id) ==
    next_revision(output_files,
                  OutputKey(entity_id, output_type_id, task_type_id, name,
                            asset_instance_id, temporal_entity_id))

\* files_service.get_working_file(id) finds a record.
working_file_exists(id) == \E x \in Range(working_files) : x.id = id

\* Faulty variant: the store has no uniqueness constraint.
entry_exists_never(rows, key, rev) == FALSE

\* The uniqueness constraint on (key, revision) the insert relies on.
entry_exists(rows, key, rev) == rev \in revisions(rows, key)

\* Ids are never reused: one per creation ever made.
new_id == Len(log) + 1

\* Faulty variant: the insert never fails, whatever the key already holds.
create_new_working_revision_unchecked(task_id, name, path, rev) ==
    LET key == WorkingKey(task_id, name)
        r == IF rev = 0 THEN get_next_working_revision(task_id, name) ELSE rev
    IN  [raised |-> FALSE, revision |-> r,
         rows |-> Append(working_files, Row(new_id, key, r, path))]

\* create_new_working_revision(task_id, person_id, software_id, name, path,
\* comment, revision): revision 0 asks for the next one; the insert fails with
\* EntryAlreadyExists when the key already holds the revision.
create_new_working_revision(task_id, name, path, rev) ==
    LET key == WorkingKey(task_id, name)
        r == IF rev = 0 THEN get_next_working_revision(task_id, name) ELSE rev
    IN  IF entry_exists(working_files, key, r)
        THEN [raised |-> TRUE, revision |-> r, rows |-> working_files]
        ELSE [raised |-> FALSE, revision |-> r,
              rows |-> Append(working_files, Row(new_id, key, r, path))]

\* update_output_file(output_file_id, data) with data = {"path": path}.
update_output_file(id, path) ==
    [i \in 1..Len(output_files) |->
        IF output_files[i].id = id
        THEN [output_files[i] EXCEPT !.path = path]
        ELSE output_files[i]]

\* ---------------------------------------------------------- file_tree_service
\* Sections 4.1 to 4.3 and 6.  A pattern is a sequence of segments: a token of
\* the closed set, the separator "/" (replaced by the caller's separator), or
\* literal text.
Tokens == {"<Project>", "<Episode>", "<Shot>", "<Asset>", "<TaskType>", "<Task>", "<OutputType>", "<Name>", "<Revision>"}

\* The template files of the server, by name.  "episodic" is well formed
\* (validation is structural only) but names a token that the context of a
\* project without episodes cannot supply.
DefaultTree ==
    [working |-> [folder_path |-> <<"<Project>", "/", "<Task>", "/", "v", "<Revision>">>,
                  file_name |-> <<"<Name>", "_v", "<Revision>">>],
     output |-> [folder_path |-> <<"<Project>", "/", "<Asset>", "/", "<OutputType>", "/", "v", "<Revision>">>,
                 file_name |-> <<"<Asset>", "_", "<OutputType>", "_", "<Name>", "_v", "<Revision>">>],
     instance |-> [folder_path |-> <<"<Project>", "/", "<Shot>", "/", "<Asset>", "/", "v", "<Revision>">>,
                   file_name |-> <<"<Shot>", "_", "<Asset>", "_", "<Name>", "_v", "<Revision>">>]]

EpisodicTree ==
    [working |-> [folder_path |-> <<"<Project>", "/", "<Episode>", "/", "<Task>", "/", "v", "<Revision>">>,
                  file_name |-> <<"<Name>", "_v", "<Revision>">>],
     output |-> [folder_path |-> <<"<Project>", "/", "<Episode>", "/", "<Asset>", "/", "v", "<Revision>">>,
                 file_name |-> <<"<Asset>", "_", "<OutputType>", "_", "<Name>", "_v", "<Revision>">>],
     instance |-> [folder_path |-> <<"<Project>", "/", "<Episode>", "/", "<Shot>", "/", "v", "<Revision>">>,
                   file_name |-> <<"<Shot>", "_", "<Asset>", "_", "<Name>", "_v", "<Revision>">>]]

\* A template file whose working and output patterns name <Foo>, a token
\* outside the closed set.
MalformedTree ==
    [working |-> [folder_path |-> <<"<Project>", "/", "<Foo>", "/", "<Task>", "/", "v", "<Revision>">>,
                  file_name |-> <<"<Name>", "_", "<Foo>", "_v", "<Revision>">>],
     output |-> [folder_path |-> <<"<Project>", "/", "<Foo>", "/", "<Asset>", "/", "v", "<Revision>">>,
                 file_name |-> <<"<Asset>", "_", "<OutputType>", "_", "<Name>", "_v", "<Revision>">>],
     instance |-> [folder_path |-> <<"<Project>", "/", "<Shot>", "/", "<Asset>", "/", "v", "<Revision>">>,
                   file_name |-> <<"<Shot>", "_", "<Asset>", "_", "<Name>", "_v", "<Revision>">>]]

\* A template with shorter patterns.
ShortTree ==
    [working |-> [folder_path |-> <<"<Project>", "/", "<Task>">>,
                  file_name |-> <<"<Name>", "_", "<Revision>">>],
     output |-> [folder_path |-> <<"<Project>", "/", "<Asset>">>,
                 file_name |-> <<"<Asset>", "_", "<Name>", "_", "<Revision>">>],
     instance |-> [folder_path |-> <<"<Project>", "/", "<Shot>">>,
                   file_name |-> <<"<Shot>", "_", "<Name>", "_", "<Revision>">>]]

TreeFiles == [default |-> DefaultTree, episodic |-> EpisodicTree, malformed |-> MalformedTree, short |-> ShortTree]

\* The names a caller may select; no template file is named "missing".
TreeNames == {"default", "episodic", "missing"}

\* A segment written as a token: <...>.
is_token(s) == Len(s) >= 2 /\ SubSeq(s, 1, 1) = "<" /\ SubSeq(s, Len(s), Len(s)) = ">"

\* The patterns of a template.
patterns(tree) ==
    {tree[tag][mode] : tag \in {"working", "output", "instance"}, mode \in {"folder_path", "file_name"}}

\* Section 4.1, structural validation: the patterns hold only tokens of the
\* closed set.
well_formed(tree) ==
    \A pattern \in patterns(tree) : \A i \in 1..Len(pattern) :
        is_token(pattern[i]) => pattern[i] \in Tokens

\* Faulty variant: the file is parsed and returned without validation.
get_tree_from_file_unvalidated(tree_name) ==
    IF tree_name \notin DOMAIN TreeFiles
    THEN [raised |-> TRUE, error |-> "WrongFileTreeFile", tree |-> DefaultTree]
    ELSE [raised |-> FALSE, error |-> None, tree |-> TreeFiles[tree_name]]

\* get_tree_from_file(tree_name), the load of section 4.1:
\* WrongFileTreeFileException (TemplateNotFound) when no file matches the name,
\* MalformedTemplate when a pattern names a token outside the closed set.
get_tree_from_file(tree_name) ==
    IF tree_name \notin DOMAIN TreeFiles
    THEN [raised |-> TRUE, error |-> "WrongFileTreeFile", tree |-> DefaultTree]
    ELSE IF ~well_formed(TreeFiles[tree_name])
    THEN [raised |-> TRUE, error |-> "MalformedTemplate", tree |-> TreeFiles[tree_name]]
    ELSE [raised |-> FALSE, error |-> None, tree |-> TreeFiles[tree_name]]

\* Faulty variant: the revision is written without padding.
format_revision_plain(rev) == ToString(rev)

\* Section 4.2: the revision is zero-padded to 3 digits.
format_revision(rev) ==
    IF rev < 10 THEN "00" \o ToString(rev)
    ELSE IF rev < 100 THEN "0" \o ToString(rev)
    ELSE ToString(rev)

\* The token context of a request: the values of the key's lineage and the
\* revision.  The project has no episode.
token_context(key, rev) ==
    [t \in Tokens |->
        CASE t = "<Project>" -> Project
          [] t = "<Episode>" -> None
          [] t = "<Shot>" -> key.temporal_entity_id
          [] t = "<Asset>" -> key.entity_id
          [] t = "<TaskType>" -> key.task_type_id
          [] t = "<Task>" -> key.task_id
          [] t = "<OutputType>" -> key.output_type_id
          [] t = "<Name>" -> key.name
          [] t = "<Revision>" -> format_revision(rev)]

RECURSIVE substitute(_, _, _)
substitute(pattern, context, sep) ==
    IF pattern = <<>>
    THEN ""
    ELSE LET s == Head(pattern)
             text == IF s = "/" THEN sep
                     ELSE IF s \in Tokens THEN context[s] ELSE s
         IN  text \o substitute(Tail(pattern), context, sep)

\* A token of the pattern without value in the context (MissingContextValue)
\* or outside the closed set (UnknownToken) is a resolution error, the
\* MalformedFileTreeException of the handlers.
render(pattern, context, sep) ==
    IF \E i \in 1..Len(pattern) :
            \/ pattern[i] \in Tokens /\ context[pattern[i]] = None
            \/ is_token(pattern[i]) /\ pattern[i] \notin Tokens
    THEN [raised |-> TRUE, text |-> ""]
    ELSE [raised |-> FALSE, text |-> substitute(pattern, context, sep)]

\* The frame placeholder of a sequence output.
placeholder(nb_elements) ==
    IF nb_elements > 1 THEN "_[1-" \o ToString(nb_elements) \o "]" ELSE ""

with_placeholder(file_name, nb_elements) ==
    [file_name EXCEPT !.text =
        IF file_name.raised THEN "" ELSE @ \o placeholder(nb_elements)]

get_working_folder_path(task_id, name, sep, rev) ==
    render(file_tree.working.folder_path,
           token_context(WorkingKey(task_id, name), rev), sep)

get_working_file_name(task_id, name, rev) ==
    render(file_tree.working.file_name,
           token_context(WorkingKey(task_id, name), rev), DefaultSep)

get_output_folder_path(key, sep, rev) ==
    render(file_tree.output.folder_path, token_context(key, rev), sep)

get_output_file_name(key, rev, nb_elements) ==
    with_placeholder(
        render(file_tree.output.file_name, token_context(key, rev), DefaultSep),
        nb_elements)

get_instance_folder_path(key, sep, rev) ==
    render(file_tree.instance.folder_path, token_context(key, rev), sep)

get_instance_file_name(key, rev, nb_elements) ==
    with_placeholder(
        render(file_tree.instance.file_name, token_context(key, rev), DefaultSep),
        nb_elements)

\* The path info of a handler: raised, folder_path, file_name and the full path.
PathInfo(folder_path, file_name, sep) ==
    [raised |-> folder_path.raised \/ file_name.raised,
     folder_path |-> folder_path.text, file_name |-> file_name.text,
     path |-> folder_path.text \o sep \o file_name.text]

NoPath == ""

\* ------------------------------------------------------------------ software
\* The software the working file parsers take as default (lines 184 and 441).
MaxSoft == "3ds Max"

\* files_service.get_or_create_software(name, short_name, extension): the row
\* of the name, created when the store has none.
get_or_create_software(name) == softwares \cup {name}

\* ------------------------------------------------- projects, assets, persons
\* projects_service.open_projects(): the projects that are open.
Projects == {"project1", "project2", "project3"}
open_projects == {"project1", "project3"}

\* user_service.get_open_projects(): the open projects of the caller's team,
\* for a caller without admin permissions.
TeamProjects == {"project1", "project2"}
get_open_projects == TeamProjects \cap open_projects

Asset(id, name, project_id) == [id |-> id, name |-> name, project_id |-> project_id]
Person(id, name) == [id |-> id, name |-> name]

\* The fixtures of the store: an asset of this name in each project, a person.
FixtureAssets == {Asset(1, "Fox", "project1"), Asset(2, "Fox", "project2"), Asset(3, "Fox", "project3")}
FixturePersons == {Person(1, "Ann")}

\* The body of an answer that is not a search result.
NoBody == [message |-> None]

\* No pattern has been expanded.
NoExpansion == [pattern |-> <<>>, key |-> NoKey, revision |-> 0, text |-> ""]

\* ---------------------------------------------------------------------- Init
Init ==
    /\ working_files = <<>>
    /\ output_files = <<>>
    /\ pc = [c \in Callers |-> "idle"]
    /\ args = [c \in Callers |-> NoArgs]
    /\ revision = [c \in Callers |-> 0]
    /\ retries = [c \in Callers |-> 0]
    /\ output_file = [c \in Callers |-> 0]
    /\ response = [c \in Callers |-> NoResponse]
    /\ nb_requests = 0
    /\ log = <<>>
    /\ fresh = [c \in Callers |-> NoQuery]
    /\ file_tree = DefaultTree
    /\ assigned = {}
    /\ deleted = {}
    /\ softwares = {}
    /\ assets = FixtureAssets
    /\ persons = FixturePersons
    /\ index = FixtureAssets
    /\ body = [c \in Callers |-> NoBody]
    /\ consulted = [c \in Callers |-> {}]
    /\ expanded = NoExpansion

\* The next-revision answer a client holds for a key, if no creation on the
\* key has been made since it was given.
current_answer(key) ==
    LET holders == {d \in Callers :
                        /\ pc[d] = "done"
                        /\ args[d].route = "next_revision"
                        /\ args[d].key = key
                        /\ response[d].epoch = epoch(key)}
    IN  IF holders = {}
        THEN NoQuery
        ELSE LET d == CHOOSE x \in holders : TRUE
             IN  [next_revision |-> response[d].revision,
                  epoch |-> response[d].epoch]

\* A worker that is free takes a creation request: the arguments are parsed.
ReceiveArgs(c, a) ==
    /\ pc[c] \in {"idle", "done"}
    /\ nb_requests < MaxRequests
    /\ nb_requests' = nb_requests + 1
    /\ args' = [args EXCEPT ![c] = a]
    /\ fresh' = [fresh EXCEPT ![c] = current_answer(a.key)]
    /\ retries' = [retries EXCEPT ![c] = 0]
    /\ output_file' = [output_file EXCEPT ![c] = 0]
    /\ response' = [response EXCEPT ![c] = NoResponse]

\* A worker that is free serves a request that needs one access to the store:
\* it parses the arguments a and returns r; the client holds the answer until
\* the worker's next request.
Serve(c, a, r) ==
    /\ pc[c] \in {"idle", "done"}
    /\ nb_requests < MaxRequests
    /\ nb_requests' = nb_requests + 1
    /\ args' = [args EXCEPT ![c] = a]
    /\ response' = [response EXCEPT ![c] = r]
    /\ pc' = [pc EXCEPT ![c] = "done"]
    /\ revision' = [revision EXCEPT ![c] = 0]
    /\ retries' = [retries EXCEPT ![c] = 0]
    /\ output_file' = [output_file EXCEPT ![c] = 0]
    /\ fresh' = [fresh EXCEPT ![c] = NoQuery]

\* A creation request with the default separator and a single element.
Receive(c, route, key, rev) == ReceiveArgs(c, Args(route, key, rev))

\* tasks_service.assign_task(task_id, current user), line 405.
assign_task(task_id) == assigned \cup {task_id}

\* NewWorkingFileResource.build_path, lines 430-437: the folder path is asked
\* without separator (file_tree_service's default), the file name is joined to
\* it with the caller's separator.
build_path(task_id, name, rev, sep) ==
    PathInfo(get_working_folder_path(task_id, name, DefaultSep, rev),
             get_working_file_name(task_id, name, rev), sep)

\* The arguments of a working file creation.
WorkingArgs(task_id, name, rev, sep) ==
    [Args("working", WorkingKey(task_id, name), rev) EXCEPT !.sep = sep]

\* Faulty variant: the next revision is asked for the task, whatever the name.
NewWorkingFileResource_post_any_name(c, task_id, name, rev, sep) ==
    /\ ReceiveArgs(c, WorkingArgs(task_id, name, rev, sep))
    /\ softwares' = get_or_create_software(MaxSoft)
    /\ assigned' = assign_task(task_id)
    /\ revision' = [revision EXCEPT ![c] =
            IF rev = 0
            THEN LET all == {x.revision : x \in
                                {y \in Range(working_files) : y.task_id = task_id}}
                 IN  IF all = {} THEN 1 ELSE MaxOf(all) + 1
            ELSE rev]
    /\ pc' = [pc EXCEPT ![c] = "w_create"]
    /\ UNCHANGED <<working_files, output_files, log, file_tree, deleted, search_vars, expanded>>

\* Faulty variant: the test `revision == 0` is lost, the next revision is always taken.
NewWorkingFileResource_post_renumber(c, task_id, name, rev, sep) ==
    /\ ReceiveArgs(c, WorkingArgs(task_id, name, rev, sep))
    /\ softwares' = get_or_create_software(MaxSoft)
    /\ assigned' = assign_task(task_id)
    /\ revision' = [revision EXCEPT ![c] =
            get_next_working_revision(task_id, name)]
    /\ pc' = [pc EXCEPT ![c] = "w_create"]
    /\ UNCHANGED <<working_files, output_files, log, file_tree, deleted, search_vars, expanded>>

\* Faulty variant: the next revision is the number of records of the key plus 1.
NewWorkingFileResource_post_count(c, task_id, name, rev, sep) ==
    /\ ReceiveArgs(c, WorkingArgs(task_id, name, rev, sep))
    /\ softwares' = get_or_create_software(MaxSoft)
    /\ assigned' = assign_task(task_id)
    /\ revision' = [revision EXCEPT ![c] =
            IF rev = 0
            THEN Cardinality({x \in Range(working_files) :
                                key_of(x) = WorkingKey(task_id, name)}) + 1
            ELSE rev]
    /\ pc' = [pc EXCEPT ![c] = "w_create"]
    /\ UNCHANGED <<working_files, output_files, log, file_tree, deleted, search_vars, expanded>>

\* -------------------------------------------------- NewWorkingFileResource
\* post, lines 389-412: arguments, task and software lookups, the task is
\* assigned to the current user; if revision == 0, the store is asked for the
\* next revision of (task_id, name).
NewWorkingFileResource_post(c, task_id, name, rev, sep) ==
    /\ ReceiveArgs(c, WorkingArgs(task_id, name, rev, sep))
    /\ softwares' = get_or_create_software(MaxSoft)
    /\ assigned' = assign_task(task_id)
    /\ revision' = [revision EXCEPT ![c] =
            IF rev = 0 THEN get_next_working_revision(task_id, name) ELSE rev]
    /\ pc' = [pc EXCEPT ![c] = "w_create"]
    /\ UNCHANGED <<working_files, output_files, log, file_tree, deleted, search_vars, expanded>>

\* Faulty variant: on EntryAlreadyExistsException the handler tries again, without end.
NewWorkingFileResource_create_retry(c) ==
    /\ pc[c] = "w_create"
    /\ LET task_id == args[c].key.task_id
           name == args[c].key.name
           path == build_path(task_id, name, revision[c], args[c].sep)
           out == create_new_working_revision(task_id, name, path.path, revision[c])
       IN  IF path.raised
           THEN /\ response' = [response EXCEPT ![c] = Reply(500, 0, 0)]
                /\ pc' = [pc EXCEPT ![c] = "done"]
                /\ revision' = [revision EXCEPT ![c] = 0]
                /\ UNCHANGED <<working_files, log>>
           ELSE IF out.raised
           THEN /\ revision' = [revision EXCEPT ![c] =
                        IF args[c].revision = 0
                        THEN get_next_working_revision(task_id, name)
                        ELSE revision[c]]
                /\ UNCHANGED <<working_files, log, response, pc>>
           ELSE /\ working_files' = out.rows
                /\ log' = Append(log, [key |-> args[c].key,
                                       revision |-> out.revision,
                                       requested |-> args[c].revision])
                /\ response' = [response EXCEPT ![c] =
                        Reply(201, out.revision, 0)]
                /\ pc' = [pc EXCEPT ![c] = "done"]
                /\ revision' = [revision EXCEPT ![c] = 0]
    /\ UNCHANGED <<output_files, args, retries, output_file, nb_requests, fresh,
                 file_tree, assigned, deleted, softwares, search_vars, expanded>>

\* post, lines 414-428: build the path, create the revision, answer 201, or 400
\* on EntryAlreadyExistsException.  A MalformedFileTreeException of build_path
\* is not caught: the request ends with a server error.
NewWorkingFileResource_create(c) ==
    /\ pc[c] = "w_create"
    /\ LET task_id == args[c].key.task_id
           name == args[c].key.name
           path == build_path(task_id, name, revision[c], args[c].sep)
           out == create_new_working_revision(task_id, name, path.path, revision[c])
       IN  IF path.raised
           THEN /\ response' = [response EXCEPT ![c] = Reply(500, 0, 0)]
                /\ UNCHANGED <<working_files, log>>
           ELSE IF out.raised
           THEN /\ response' = [response EXCEPT ![c] =
                        Reply(400, 0, 0)]
                /\ UNCHANGED <<working_files, log>>
           ELSE /\ working_files' = out.rows
                /\ log' = Append(log, [key |-> args[c].key,
                                       revision |-> out.revision,
                                       requested |-> args[c].revision])
                /\ response' = [response EXCEPT ![c] =
                        Reply(201, out.revision, 0)]
    /\ pc' = [pc EXCEPT ![c] = "done"]
    /\ revision' = [revision EXCEPT ![c] = 0]
    /\ UNCHANGED <<output_files, args, retries, output_file, nb_requests, fresh,
                 file_tree, assigned, deleted, softwares, search_vars, expanded>>

\* ------------------------------------------------ create_new_output_revision
\* Faulty variant: revision 0 is stored as given.
propose_revision_as_given(key, requested) == requested

\* Section 4.4, Proposed: a pinned revision is taken as given, revision 0
\* proposes max + 1.
propose_revision(key, requested) ==
    IF requested # 0
    THEN requested
    ELSE get_next_output_file_revision(
             key.entity_id, key.output_type_id, key.task_type_id, key.name,
             key.asset_instance_id, key.temporal_entity_id)

\* Section 4.4, Inserted / Retry / Rejected: the insert is atomic with the
\* uniqueness check; a collision of an auto revision is retried (max + 1 is
\* proposed again) while the budget lasts; otherwise EntryAlreadyExists reaches
\* the handler, which answers 400 (lines 589-590 and 738-739).
create_new_output_revision(c) ==
    /\ pc[c] = "o_insert"
    /\ IF ~entry_exists(output_files, args[c].key, revision[c])
       THEN /\ output_files' = Append(output_files,
                    [Row(new_id, args[c].key, revision[c], NoPath) EXCEPT
                        !.working_file_id = args[c].id])
            /\ log' = Append(log, [key |-> args[c].key,
                                   revision |-> revision[c],
                                   requested |-> args[c].revision])
            /\ output_file' = [output_file EXCEPT ![c] = new_id]
            /\ pc' = [pc EXCEPT ![c] = "o_path"]
            /\ UNCHANGED <<revision, retries, response>>
       ELSE IF args[c].revision = 0 /\ retries[c] < MaxRetries
       THEN /\ retries' = [retries EXCEPT ![c] = retries[c] + 1]
            /\ revision' = [revision EXCEPT ![c] =
                    propose_revision(args[c].key, args[c].revision)]
            /\ UNCHANGED <<output_files, log, output_file, response, pc>>
       ELSE /\ response' = [response EXCEPT ![c] =
                    Reply(400, 0, 0)]
            /\ pc' = [pc EXCEPT ![c] = "done"]
            /\ revision' = [revision EXCEPT ![c] = 0]
            /\ UNCHANGED <<output_files, log, output_file, retries>>
    /\ UNCHANGED <<working_files, args, nb_requests, fresh, file_tree, assigned, deleted, softwares, search_vars, expanded>>

\* ----------------------------------------------- NewEntityOutputFileResource
EntityKey(name) == OutputKey(Entity, OutputType, TaskType, name, None, None)

InstanceKey(name) == OutputKey(instance_asset(AssetInstance), OutputType, TaskType, name, AssetInstance, TemporalEntity)

\* The arguments of an output file creation.
OutputArgs(route, key, rev, sep, nb_elements) ==
    [Args(route, key, rev) EXCEPT !.sep = sep, !.nb_elements = nb_elements]

\* Lines 540-546 and 681-687: files_service.get_working_file(working_file_id)
\* gives the local working_file_id, None (0) on WorkingFileNotFoundException.
\* The arguments keep the id given (0 when absent) and, as id, the local.
WithWorkingFile(a, working_file_id) ==
    [a EXCEPT !.working_file_id = working_file_id,
              !.id = IF working_file_exists(working_file_id) THEN working_file_id ELSE 0]

\* Faulty variant: WorkingFileNotFoundException is not caught, the request
\* ends with 404.
NewEntityOutputFileResource_post_not_found(c, name, rev, sep, nb_elements, working_file_id) ==
    LET a == WithWorkingFile(OutputArgs("entity_output", EntityKey(name), rev, sep, nb_elements), working_file_id)
    IN  /\ IF working_file_exists(working_file_id)
           THEN /\ ReceiveArgs(c, a)
                /\ revision' = [revision EXCEPT ![c] = propose_revision(EntityKey(name), rev)]
                /\ pc' = [pc EXCEPT ![c] = "o_insert"]
           ELSE Serve(c, a, Reply(404, 0, 0))
        /\ UNCHANGED <<working_files, output_files, log, file_tree, assigned, deleted, softwares, search_vars, expanded>>

\* post, lines 535-571: arguments and lookups, then create_new_output_revision
\* is called with the entity's key and the requested revision.
NewEntityOutputFileResource_post(c, name, rev, sep, nb_elements, working_file_id) ==
    /\ ReceiveArgs(c, WithWorkingFile(OutputArgs("entity_output", EntityKey(name), rev, sep, nb_elements), working_file_id))
    /\ revision' = [revision EXCEPT ![c] = propose_revision(EntityKey(name), rev)]
    /\ pc' = [pc EXCEPT ![c] = "o_insert"]
    /\ UNCHANGED <<working_files, output_files, log, file_tree, assigned, deleted, softwares, search_vars, expanded>>

\* --------------------------------------------- NewInstanceOutputFileResource
\* Faulty variant: asset_instance_id and temporal_entity_id are not handed to
\* create_new_output_revision, the record is stored under the asset's own key.
NewInstanceOutputFileResource_post_asset_key(c, name, rev, sep, nb_elements, working_file_id) ==
    /\ ReceiveArgs(c, WithWorkingFile(OutputArgs("instance_output", EntityKey(name), rev, sep, nb_elements), working_file_id))
    /\ revision' = [revision EXCEPT ![c] = propose_revision(EntityKey(name), rev)]
    /\ pc' = [pc EXCEPT ![c] = "o_insert"]
    /\ UNCHANGED <<working_files, output_files, log, file_tree, assigned, deleted, softwares, search_vars, expanded>>

\* post, lines 677-719: the key is the asset of the instance, the instance and
\* the temporal entity.
NewInstanceOutputFileResource_post(c, name, rev, sep, nb_elements, working_file_id) ==
    /\ ReceiveArgs(c, WithWorkingFile(OutputArgs("instance_output", InstanceKey(name), rev, sep, nb_elements), working_file_id))
    /\ revision' = [revision EXCEPT ![c] = propose_revision(InstanceKey(name), rev)]
    /\ pc' = [pc EXCEPT ![c] = "o_insert"]
    /\ UNCHANGED <<working_files, output_files, log, file_tree, assigned, deleted, softwares, search_vars, expanded>>

\* NewEntityOutputFileResource.add_path_info, lines 626-644: the folder path
\* with the caller's separator, the file name with nb_elements.
NewEntityOutputFileResource_add_path_info(key, rev, sep, nb_elements) ==
    PathInfo(get_output_folder_path(key, sep, rev),
             get_output_file_name(key, rev, nb_elements), sep)

\* NewInstanceOutputFileResource.add_path_info, lines 777-796: nb_elements is
\* not handed to get_instance_file_name, which takes its default (1).
NewInstanceOutputFileResource_add_path_info(key, rev, sep, nb_elements) ==
    PathInfo(get_instance_folder_path(key, sep, rev),
             get_instance_file_name(key, rev, 1), sep)

\* The path info of the record a request has created.
path_info(c) ==
    IF args[c].route = "entity_output"
    THEN NewEntityOutputFileResource_add_path_info(
             args[c].key, revision[c], args[c].sep, args[c].nb_elements)
    ELSE NewInstanceOutputFileResource_add_path_info(
             args[c].key, revision[c], args[c].sep, args[c].nb_elements)

\* The answer of an output file creation: the record with folder_path and
\* file_name.
Created(rev, info) ==
    [Reply(201, rev, 0) EXCEPT !.folder_path = info.folder_path,
                               !.file_name = info.file_name]

\* Faulty variant: the path is written to every row of the key, not to the row created.
add_path_info_by_key(c) ==
    /\ pc[c] = "o_path"
    /\ IF path_info(c).raised
       THEN /\ response' = [response EXCEPT ![c] = Reply(500, 0, 0)]
            /\ UNCHANGED output_files
       ELSE /\ output_files' =
                [i \in 1..Len(output_files) |->
                    IF key_of(output_files[i]) = args[c].key
                    THEN [output_files[i] EXCEPT !.path = path_info(c).path]
                    ELSE output_files[i]]
            /\ response' = [response EXCEPT ![c] = Created(revision[c], path_info(c))]
    /\ pc' = [pc EXCEPT ![c] = "done"]
    /\ revision' = [revision EXCEPT ![c] = 0]
    /\ output_file' = [output_file EXCEPT ![c] = 0]
    /\ UNCHANGED <<working_files, args, retries, nb_requests, log, fresh,
                 file_tree, assigned, deleted, softwares, search_vars, expanded>>

\* add_path_info (lines 613-658 and 763-810), after create_new_output_revision
\* has stored the record: the folder path and the file name are built with
\* output_file["revision"], the row's path is updated and the handler answers
\* 201.  A MalformedFileTreeException of the path functions is not caught by
\* post (lines 585-590, 734-739): the request ends with a server error.
add_path_info(c) ==
    /\ pc[c] = "o_path"
    /\ IF path_info(c).raised
       THEN /\ response' = [response EXCEPT ![c] = Reply(500, 0, 0)]
            /\ UNCHANGED output_files
       ELSE /\ output_files' = update_output_file(output_file[c], path_info(c).path)
            /\ response' = [response EXCEPT ![c] = Created(revision[c], path_info(c))]
    /\ pc' = [pc EXCEPT ![c] = "done"]
    /\ revision' = [revision EXCEPT ![c] = 0]
    /\ output_file' = [output_file EXCEPT ![c] = 0]
    /\ UNCHANGED <<working_files, args, retries, nb_requests, log, fresh,
                 file_tree, assigned, deleted, softwares, search_vars, expanded>>

\* ------------------------------------------------------ next-revision queries
\* The worker answers {"next_revision": n}.
Answer(c, key, n) ==
    /\ Serve(c, Args("next_revision", key, 0), Reply(200, n, epoch(key)))
    /\ UNCHANGED <<working_files, output_files, log, file_tree, assigned, deleted, softwares, search_vars, expanded>>

\* Faulty variant: the outputs of the asset's instances are counted with the entity's.
GetNextEntityOutputFileRevisionResource_post_any_instance(c, name) ==
    Answer(c, OutputKey(Entity, OutputType, TaskType, name, None, None),
           LET all == {x.revision : x \in
                          {y \in Range(output_files) :
                              /\ y.entity_id = Entity
                              /\ y.output_type_id = OutputType
                              /\ y.task_type_id = TaskType
                              /\ y.name = name}}
           IN  IF all = {} THEN 1 ELSE MaxOf(all) + 1)

\* GetNextEntityOutputFileRevisionResource.post, lines 816-831.
GetNextEntityOutputFileRevisionResource_post(c, name) ==
    Answer(c, OutputKey(Entity, OutputType, TaskType, name, None, None),
           get_next_output_file_revision(Entity, OutputType, TaskType, name,
                                         None, None))

\* GetNextInstanceOutputFileRevisionResource.post, lines 846-868.
GetNextInstanceOutputFileRevisionResource_post(c, name) ==
    Answer(c, OutputKey(instance_asset(AssetInstance), OutputType, TaskType,
                        name, AssetInstance, TemporalEntity),
           get_next_output_file_revision(
               instance_asset(AssetInstance), OutputType, TaskType, name,
               AssetInstance, TemporalEntity))

\* get_next_working_file_revision(task_id, name), section 6.
GetNextWorkingFileRevision(c, task_id, name) ==
    Answer(c, WorkingKey(task_id, name),
           get_next_working_file_revision(task_id, name))

\* ------------------------------------------------------------ path resources
\* The parsers of the path resources declare "revision" with default 0 and no
\* type: absent, the revision is the integer 0; given in the body, it is parsed
\* as text, and the text "0" is not the integer 0.
PathArgs(route, key, given, rev, sep) ==
    [Args(route, key, IF given THEN rev ELSE 0) EXCEPT
        !.revision_is_text = given, !.sep = sep]

\* `revision != 0` (lines 155 and 227).
is_revision_set_by_user(a) == ~(a.revision = 0 /\ ~a.revision_is_text)

\* The answer of a path resource: 400 on MalformedFileTreeException, the
\* folder path and the file name otherwise.
Paths(info) ==
    IF info.raised
    THEN Reply(400, 0, 0)
    ELSE [Reply(200, 0, 0) EXCEPT !.folder_path = info.folder_path,
                                  !.file_name = info.file_name]

\* WorkingFilePathResource.post, lines 134-181, served with no other request
\* in between.  get_arguments (line 184) gets or creates the default software.
WorkingFilePathResource_post(c, task_id, name, given, rev, sep) ==
    LET a == PathArgs("working_path", WorkingKey(task_id, name), given, rev, sep)
        r == IF ~is_revision_set_by_user(a)
             THEN get_next_working_file_revision(task_id, name)
             ELSE a.revision
    IN  /\ Serve(c, a, Paths(PathInfo(
                    get_working_folder_path(task_id, name, sep, r),
                    get_working_file_name(task_id, name, r), sep)))
        /\ softwares' = get_or_create_software(MaxSoft)
        /\ UNCHANGED <<working_files, output_files, log, file_tree, assigned, deleted, search_vars, expanded>>

\* WorkingFilePathResource.post served beside other requests.  The handler
\* makes two calls to file_tree_service, get_working_folder_path (line 160) and
\* get_working_file_name (line 168); each is given the task, not a template,
\* and takes the file tree of the task's project when it runs.
\* Lines 149-167: the arguments, the revision, the folder path.
WorkingFilePathResource_folder_path(c, task_id, name, given, rev, sep) ==
    LET a == PathArgs("working_path", WorkingKey(task_id, name), given, rev, sep)
        r == IF ~is_revision_set_by_user(a)
             THEN get_next_working_file_revision(task_id, name)
             ELSE a.revision
        folder_path == get_working_folder_path(task_id, name, sep, r)
    IN  /\ pc[c] \in {"idle", "done"}
        /\ nb_requests < MaxRequests
        /\ nb_requests' = nb_requests + 1
        /\ args' = [args EXCEPT ![c] = a]
        /\ fresh' = [fresh EXCEPT ![c] = NoQuery]
        /\ retries' = [retries EXCEPT ![c] = 0]
        /\ output_file' = [output_file EXCEPT ![c] = 0]
        /\ IF folder_path.raised
           THEN /\ response' = [response EXCEPT ![c] = Reply(400, 0, 0)]
                /\ pc' = [pc EXCEPT ![c] = "done"]
                /\ revision' = [revision EXCEPT ![c] = 0]
           ELSE /\ response' = [response EXCEPT ![c] =
                        [NoResponse EXCEPT !.folder_path = folder_path.text]]
                /\ pc' = [pc EXCEPT ![c] = "p_name"]
                /\ revision' = [revision EXCEPT ![c] = r]
        /\ softwares' = get_or_create_software(MaxSoft)
        /\ UNCHANGED <<working_files, output_files, log, file_tree, assigned, deleted, search_vars, expanded>>

\* Lines 168-181: the file name, and the answer.
WorkingFilePathResource_file_name(c) ==
    /\ pc[c] = "p_name"
    /\ LET file_name == get_working_file_name(
                            args[c].key.task_id, args[c].key.name, revision[c])
       IN  response' = [response EXCEPT ![c] =
                IF file_name.raised
                THEN Reply(400, 0, 0)
                ELSE [Reply(200, 0, 0) EXCEPT
                        !.folder_path = response[c].folder_path,
                        !.file_name = file_name.text]]
    /\ pc' = [pc EXCEPT ![c] = "done"]
    /\ revision' = [revision EXCEPT ![c] = 0]
    /\ UNCHANGED <<working_files, output_files, args, retries, output_file,
                 nb_requests, log, fresh, file_tree, assigned, deleted, softwares, search_vars, expanded>>

\* EntityOutputFilePathResource.post, lines 217-259.  The next revision is asked
\* with two positional arguments, (entity_id, args["name"]): either the service
\* requires more and the call raises (binds = FALSE, a server error), or they
\* are bound to entity_id and output_type_id and the name takes its default.
\* The folder path is built with args["revision"], the file name with revision.
EntityOutputFilePathResource_post(c, name, given, rev, sep, binds) ==
    LET a == PathArgs("entity_output_path", EntityKey(name), given, rev, sep)
        r == IF ~is_revision_set_by_user(a)
             THEN get_next_output_file_revision(Entity, name, None, "main", None, None)
             ELSE a.revision
    IN  /\ Serve(c, a,
                 IF ~is_revision_set_by_user(a) /\ ~binds
                 THEN Reply(500, 0, 0)
                 ELSE Paths(PathInfo(
                        get_output_folder_path(EntityKey(name), sep, a.revision),
                        get_output_file_name(EntityKey(name), r, 1), sep)))
        /\ UNCHANGED <<working_files, output_files, log, file_tree, assigned, deleted, softwares, search_vars, expanded>>

\* InstanceOutputFilePathResource.post, lines 281-327: the folder path and the
\* file name are built with args["revision"].
InstanceOutputFilePathResource_post(c, name, given, rev, sep) ==
    LET a == PathArgs("instance_output_path", InstanceKey(name), given, rev, sep)
    IN  /\ Serve(c, a, Paths(PathInfo(
                    get_instance_folder_path(InstanceKey(name), sep, a.revision),
                    get_instance_file_name(InstanceKey(name), a.revision, 1), sep)))
        /\ UNCHANGED <<working_files, output_files, log, file_tree, assigned, deleted, softwares, search_vars, expanded>>

\* ------------------------------------------------------------ SetTreeResource
\* The answer of a request whose load raised: WrongFileTreeFileException is
\* caught and aborts with 400 (lines 1101-1102); any other exception is not
\* caught and ends the request with a server error.
Aborted(error) ==
    IF error = "WrongFileTreeFile" THEN Reply(400, 0, 0) ELSE Reply(500, 0, 0)

\* Faulty variant: the project is updated before the template is known to exist.
SetTreeResource_post_unchecked(c, tree_name) ==
    LET out == get_tree_from_file(tree_name)
        a == [Args("set_file_tree", NoKey, 0) EXCEPT !.tree_name = tree_name]
    IN  /\ file_tree' = out.tree
        /\ Serve(c, a, IF out.raised THEN Aborted(out.error) ELSE Reply(200, 0, 0))
        /\ UNCHANGED <<working_files, output_files, log, assigned, deleted, softwares, search_vars, expanded>>

\* Faulty variant: the handler reads the template file without the validation
\* of the load.
SetTreeResource_post_unvalidated(c, tree_name) ==
    LET out == get_tree_from_file_unvalidated(tree_name)
        a == [Args("set_file_tree", NoKey, 0) EXCEPT !.tree_name = tree_name]
    IN  IF out.raised
        THEN /\ Serve(c, a, Aborted(out.error))
             /\ UNCHANGED <<working_files, output_files, log, file_tree, assigned, deleted, softwares, search_vars, expanded>>
        ELSE /\ file_tree' = out.tree
             /\ Serve(c, a, Reply(200, 0, 0))
             /\ UNCHANGED <<working_files, output_files, log, assigned, deleted, softwares, search_vars, expanded>>

\* post, lines 1092-1103: the template is loaded, then the project is updated;
\* on WrongFileTreeFileException the request is aborted with 400.
SetTreeResource_post(c, tree_name) ==
    LET out == get_tree_from_file(tree_name)
        a == [Args("set_file_tree", NoKey, 0) EXCEPT !.tree_name = tree_name]
    IN  IF out.raised
        THEN /\ Serve(c, a, Aborted(out.error))
             /\ UNCHANGED <<working_files, output_files, log, file_tree, assigned, deleted, softwares, search_vars, expanded>>
        ELSE /\ file_tree' = out.tree
             /\ Serve(c, a, Reply(200, 0, 0))
             /\ UNCHANGED <<working_files, output_files, log, assigned, deleted, softwares, search_vars, expanded>>

\* ------------------------------------------------- working file updates
\* The ids the store has given so far.
Ids == 1..Len(log)

\* The date of a request: dates grow with the requests.
utcnow == nb_requests + 1

Comments == {"retake"}

\* files_service.update_working_file(working_file_id, data), data of one field.
update_working_file(id, field, value) ==
    [i \in 1..Len(working_files) |->
        IF working_files[i].id = id
        THEN [working_files[i] EXCEPT ![field] = value]
        ELSE working_files[i]]

\* A request on a working file given by its id: WorkingFileNotFoundException
\* (404) when the store has no such record.
UpdateWorkingFile(c, route, id, field, value) ==
    LET a == [Args(route, NoKey, 0) EXCEPT !.id = id]
    IN  /\ IF working_file_exists(id)
           THEN /\ working_files' = update_working_file(id, field, value)
                /\ Serve(c, a, Reply(200, 0, 0))
           ELSE /\ UNCHANGED working_files
                /\ Serve(c, a, Reply(404, 0, 0))
        /\ UNCHANGED <<output_files, log, file_tree, assigned, deleted, softwares, search_vars, expanded>>

\* ModifiedFileResource.put, lines 472-484.
ModifiedFileResource_put(c, working_file_id) ==
    UpdateWorkingFile(c, "modified", working_file_id, "updated_at", utcnow)

\* CommentWorkingFileResource.put, lines 491-516.
CommentWorkingFileResource_put(c, working_file_id, comment) ==
    UpdateWorkingFile(c, "comment", working_file_id, "comment", comment)

\* ---------------------------------------------------------------- deletion
\* Section 3: a record that is deleted is removed from the store, for good.
remove(rows, id) == SelectSeq(rows, LAMBDA x : x.id # id)

file_exists(id) == \E x \in Range(working_files) \cup Range(output_files) : x.id = id

delete_file(c, id) ==
    /\ file_exists(id)
    /\ working_files' = remove(working_files, id)
    /\ output_files' = remove(output_files, id)
    /\ deleted' = deleted \cup {id}
    /\ Serve(c, [Args("delete", NoKey, 0) EXCEPT !.id = id], Reply(204, 0, 0))
    /\ UNCHANGED <<log, file_tree, assigned, softwares, search_vars, expanded>>

\* ---------------------------------------------------------------------- Next
Requested == 0..MaxRevision

Step(c) ==
    \/ NewWorkingFileResource_create(c)
    \/ create_new_output_revision(c)
    \/ add_path_info(c)

Post(c) ==
    \/ \E t \in Tasks, n \in Names, r \in Requested :
            NewWorkingFileResource_post(c, t, n, r, DefaultSep)
    \/ \E n \in OutputNames, r \in Requested :
            NewEntityOutputFileResource_post(c, n, r, DefaultSep, 1, 0)
    \/ \E n \in OutputNames, r \in Requested :
            NewInstanceOutputFileResource_post(c, n, r, DefaultSep, 1, 0)
    \/ \E n \in OutputNames : GetNextEntityOutputFileRevisionResource_post(c, n)
    \/ \E n \in OutputNames : GetNextInstanceOutputFileRevisionResource_post(c, n)
    \/ \E t \in Tasks, n \in Names : GetNextWorkingFileRevision(c, t, n)

Next == \E c \in Callers : Post(c) \/ Step(c)

Spec == Init /\ [][Next]_vars

\* Requests are served one after another: a request is taken only when no
\* other is in progress.
Quiet == \A d \in Callers : pc[d] \in {"idle", "done"}

SeqNext == \E c \in Callers : (Quiet /\ Post(c)) \/ Step(c)

SeqSpec == Init /\ [][SeqNext]_vars

\* The workers run their handlers: while some handler has a step to take, a
\* handler step is eventually taken.
LiveSpec == Spec /\ WF_vars(\E c \in Callers : Step(c))

\* ------------------------------------------------- file trees and paths
\* The revision argument of a path resource: absent, or given with a value.
Given == {<<FALSE, 0>>} \cup {<<TRUE, r>> : r \in Requested}

\* The requests on the file tree, the paths and the working file records, with
\* the separator and nb_elements chosen by the caller.  The requests are served
\* one after another.
TreePost(c) ==
    \/ \E t \in Tasks, n \in Names, r \in Requested, sep \in Seps :
            Quiet /\ NewWorkingFileResource_post(c, t, n, r, sep)
    \/ \E n \in OutputNames, r \in Requested, sep \in Seps, nb \in NbElements :
            Quiet /\ NewEntityOutputFileResource_post(c, n, r, sep, nb, 0)
    \/ \E n \in OutputNames, r \in Requested, sep \in Seps, nb \in NbElements :
            Quiet /\ NewInstanceOutputFileResource_post(c, n, r, sep, nb, 0)
    \/ \E t \in Tasks, n \in Names, g \in Given, sep \in Seps :
            Quiet /\ WorkingFilePathResource_post(c, t, n, g[1], g[2], sep)
    \/ \E n \in OutputNames, g \in Given, sep \in Seps, binds \in BOOLEAN :
            Quiet /\ EntityOutputFilePathResource_post(c, n, g[1], g[2], sep, binds)
    \/ \E n \in OutputNames, g \in Given, sep \in Seps :
            Quiet /\ InstanceOutputFilePathResource_post(c, n, g[1], g[2], sep)
    \/ \E tree_name \in TreeNames : Quiet /\ SetTreeResource_post(c, tree_name)
    \/ \E id \in Ids : Quiet /\ ModifiedFileResource_put(c, id)
    \/ \E id \in Ids, comment \in Comments :
            Quiet /\ CommentWorkingFileResource_put(c, id, comment)

TreeNext == \E c \in Callers : TreePost(c) \/ Step(c)

TreeSpec == Init /\ [][TreeNext]_vars

\* The file tree is set while output files are created: the handlers run
\* concurrently.
SetTreeNext ==
    \E c \in Callers :
        \/ \E tree_name \in TreeNames : SetTreeResource_post(c, tree_name)
        \/ \E n \in OutputNames, r \in Requested :
                NewEntityOutputFileResource_post(c, n, r, DefaultSep, 1, 0)
        \/ create_new_output_revision(c)
        \/ add_path_info(c)

SetTreeSpec == Init /\ [][SetTreeNext]_vars

\* Templates are selected, among them a malformed one, while working file
\* paths are asked and working files are created.
LoadNames == TreeNames \cup {"malformed"}

LoadNext ==
    \E c \in Callers :
        \/ \E tree_name \in LoadNames : SetTreeResource_post(c, tree_name)
        \/ \E t \in Tasks, n \in Names, g \in Given :
                WorkingFilePathResource_post(c, t, n, g[1], g[2], DefaultSep)
        \/ \E t \in Tasks, n \in Names :
                NewWorkingFileResource_post(c, t, n, 0, DefaultSep)
        \/ NewWorkingFileResource_create(c)

\* ---------------------------------------------------------- pattern expansion
\* The example of section 4.2.
ExamplePattern == <<"<Project>", "/", "<Task>", "/", "<Name>", "_v", "<Revision>">>
ExampleKey == WorkingKey("modeling", "main")

\* The patterns, keys and revisions that are expanded.
ExpandPatterns ==
    {ExamplePattern} \cup {TreeFiles[n].working[m] : n \in {"default", "short"}, m \in {"folder_path", "file_name"}}
ExpandKeys == {WorkingKey("task1", "main"), ExampleKey}
ExpandRevisions == (0..(MaxRevision + 10)) \cup {99, 100, 999}

\* PathBuilder: a pattern is expanded against the context of a key and a
\* revision.  An expansion counts among the requests of a run.
Expand(pattern, key, rev) ==
    /\ nb_requests < MaxRequests
    /\ nb_requests' = nb_requests + 1
    /\ expanded' = [pattern |-> pattern, key |-> key, revision |-> rev,
                    text |-> render(pattern, token_context(key, rev), DefaultSep).text]
    /\ UNCHANGED <<working_files, output_files, pc, args, revision, retries,
                   output_file, response, log, fresh,
                   file_tree, assigned, deleted, softwares, search_vars>>

\* Patterns are expanded and working files are created with pinned revisions.
FormatNext ==
    \/ \E pattern \in ExpandPatterns, key \in ExpandKeys, rev \in ExpandRevisions :
            Expand(pattern, key, rev)
    \/ \E c \in Callers, r \in Requested :
            NewWorkingFileResource_post(c, "task1", "main", r, DefaultSep)
    \/ \E c \in Callers : NewWorkingFileResource_create(c)

FormatSpec == Init /\ [][FormatNext]_vars

LoadSpec == Init /\ [][LoadNext]_vars

\* Output files are created from a working file, from none or from one that
\* does not exist, while working files are created.
WorkingFileIds == 0..MaxRequests

SourceNext ==
    \E c \in Callers :
        \/ \E n \in Names : NewWorkingFileResource_post(c, "task1", n, 0, DefaultSep)
        \/ \E n \in OutputNames, w \in WorkingFileIds :
                NewEntityOutputFileResource_post(c, n, 0, DefaultSep, 1, w)
        \/ \E n \in OutputNames, w \in WorkingFileIds :
                NewInstanceOutputFileResource_post(c, n, 0, DefaultSep, 1, w)
        \/ NewWorkingFileResource_create(c)
        \/ create_new_output_revision(c)
        \/ add_path_info(c)

SourceSpec == Init /\ [][SourceNext]_vars

\* Working file paths are asked while the project switches between two
\* well-formed templates; the workers run concurrently.
SwitchNames == {"default", "short"}

SwitchNext ==
    \E c \in Callers :
        \/ \E tree_name \in SwitchNames : SetTreeResource_post(c, tree_name)
        \/ \E t \in Tasks, n \in Names, g \in Given, sep \in Seps :
                WorkingFilePathResource_folder_path(c, t, n, g[1], g[2], sep)
        \/ WorkingFilePathResource_file_name(c)

SwitchSpec == Init /\ [][SwitchNext]_vars

\* ---------------------------------------------------------------- deletion
\* A store that holds two revisions of a working file.
StoredKey == WorkingKey("task1", "main")

StoredInit ==
    /\ file_tree = DefaultTree
    /\ working_files =
            <<Row(1, StoredKey, 1, build_path("task1", "main", 1, DefaultSep).path),
              Row(2, StoredKey, 2, build_path("task1", "main", 2, DefaultSep).path)>>
    /\ output_files = <<>>
    /\ pc = [c \in Callers |-> "idle"]
    /\ args = [c \in Callers |-> NoArgs]
    /\ revision = [c \in Callers |-> 0]
    /\ retries = [c \in Callers |-> 0]
    /\ output_file = [c \in Callers |-> 0]
    /\ response = [c \in Callers |-> NoResponse]
    /\ nb_requests = 0
    /\ log = <<[key |-> StoredKey, revision |-> 1, requested |-> 0],
               [key |-> StoredKey, revision |-> 2, requested |-> 0]>>
    /\ fresh = [c \in Callers |-> NoQuery]
    /\ assigned = {"task1"}
    /\ deleted = {}
    /\ softwares = {MaxSoft}
    /\ assets = FixtureAssets
    /\ persons = FixturePersons
    /\ index = FixtureAssets
    /\ body = [c \in Callers |-> NoBody]
    /\ consulted = [c \in Callers |-> {}]
    /\ expanded = NoExpansion

\* Requests served one after another, among them deletions.
DeleteNext ==
    \E c \in Callers :
        \/ Quiet /\ Post(c)
        \/ Quiet /\ \E id \in Ids : delete_file(c, id)
        \/ Step(c)

DeleteSpec == StoredInit /\ [][DeleteNext]_vars

\* -------------------------------------------------------------------- search
\* The index matches without case: the letters of the names at hand, folded.
lower_char(ch) ==
    CASE ch = "A" -> "a" [] ch = "F" -> "f" [] ch = "O" -> "o" [] OTHER -> ch

RECURSIVE lower(_)
lower(s) ==
    IF Len(s) = 0
    THEN ""
    ELSE lower_char(SubSeq(s, 1, 1)) \o lower(SubSeq(s, 2, Len(s)))

\* A name matches a query that it holds ("rab" and "usten" in the tests).
matches(name, query) == Contains(lower(name), lower(query))

\* index_service.search_assets(query, project_ids): the documents of the
\* projects whose name matches.
search_assets(query, project_ids) ==
    {d \in index : d.project_id \in project_ids /\ matches(d.name, query)}

\* The queries and the names the callers send.
Queries == {"fo", "ox", "fox", "Fox", "foxy"}
AssetNames == {"Ox", "Foxy"}
PersonNames == {"Fox"}

\* The arguments of a search.
SearchArgs(query, admin) ==
    [Args("search", NoKey, 0) EXCEPT !.query = query, !.admin = admin]

\* Faulty variant: a query of 3 characters is refused too.
SearchResource_post_longer(c, query, admin) ==
    LET projects == IF admin THEN open_projects ELSE get_open_projects
    IN  /\ Serve(c, SearchArgs(query, admin), Reply(200, 0, 0))
        /\ IF Len(query) <= 3
           THEN /\ body' = [body EXCEPT ![c] = [assets |-> {}]]
                /\ consulted' = [consulted EXCEPT ![c] = {}]
           ELSE /\ body' = [body EXCEPT ![c] = [assets |-> search_assets(query, projects)]]
                /\ consulted' = [consulted EXCEPT ![c] =
                        {IF admin THEN "projects_service" ELSE "user_service", "index_service"}]
        /\ UNCHANGED <<working_files, output_files, log, file_tree, assigned,
                       deleted, softwares, assets, persons, index, expanded>>

\* Faulty variant: every caller is given the open projects of an admin.
SearchResource_post_all_open(c, query, admin) ==
    /\ Serve(c, SearchArgs(query, admin), Reply(200, 0, 0))
    /\ IF Len(query) < 3
       THEN /\ body' = [body EXCEPT ![c] = [assets |-> {}]]
            /\ consulted' = [consulted EXCEPT ![c] = {}]
       ELSE /\ body' = [body EXCEPT ![c] = [assets |-> search_assets(query, open_projects)]]
            /\ consulted' = [consulted EXCEPT ![c] = {"projects_service", "index_service"}]
    /\ UNCHANGED <<working_files, output_files, log, file_tree, assigned,
                   deleted, softwares, assets, persons, index, expanded>>

\* Faulty variant: the length of the query is not tested.
SearchResource_post_unguarded(c, query, admin) ==
    LET projects == IF admin THEN open_projects ELSE get_open_projects
    IN  /\ Serve(c, SearchArgs(query, admin), Reply(200, 0, 0))
        /\ body' = [body EXCEPT ![c] = [assets |-> search_assets(query, projects)]]
        /\ consulted' = [consulted EXCEPT ![c] =
                {IF admin THEN "projects_service" ELSE "user_service", "index_service"}]
        /\ UNCHANGED <<working_files, output_files, log, file_tree, assigned,
                       deleted, softwares, assets, persons, index, expanded>>

\* SearchResource.post, lines 13-25: a query of fewer than 3 characters is
\* answered {"assets": []}; otherwise the open projects (all of them for an
\* admin, the caller's otherwise) are handed to index_service.search_assets
\* and the answer is {"assets": ...}.
SearchResource_post(c, query, admin) ==
    LET projects == IF admin THEN open_projects ELSE get_open_projects
    IN  /\ Serve(c, SearchArgs(query, admin), Reply(200, 0, 0))
        /\ IF Len(query) < 3
           THEN /\ body' = [body EXCEPT ![c] = [assets |-> {}]]
                /\ consulted' = [consulted EXCEPT ![c] = {}]
           ELSE /\ body' = [body EXCEPT ![c] = [assets |-> search_assets(query, projects)]]
                /\ consulted' = [consulted EXCEPT ![c] =
                        {IF admin THEN "projects_service" ELSE "user_service", "index_service"}]
        /\ UNCHANGED <<working_files, output_files, log, file_tree, assigned,
                       deleted, softwares, assets, persons, index, expanded>>

\* ------------------------------------------- assets and persons of the tests
\* The requests of tests/search/test_search.py on assets and persons; each one
\* changes the store and, for an asset, its document in the index.
new_row_id == Cardinality(FixtureAssets) + nb_requests + 1

Change(c, route, id) ==
    /\ Serve(c, [Args(route, NoKey, 0) EXCEPT !.id = id], Reply(200, 0, 0))
    /\ UNCHANGED <<working_files, output_files, log, file_tree, assigned,
                   deleted, softwares, body, consulted, expanded>>

\* POST data/projects/<project_id>/asset-types/<asset_type_id>/assets/new.
create_asset(c, name, project_id) ==
    /\ assets' = assets \cup {Asset(new_row_id, name, project_id)}
    /\ index' = index \cup {Asset(new_row_id, name, project_id)}
    /\ Change(c, "new_asset", new_row_id)
    /\ UNCHANGED persons

\* PUT data/entities/<id> with a name.
update_entity(c, id, name) ==
    /\ \E x \in assets : x.id = id
    /\ assets' = {IF x.id = id THEN [x EXCEPT !.name = name] ELSE x : x \in assets}
    /\ index' = {IF x.id = id THEN [x EXCEPT !.name = name] ELSE x : x \in index}
    /\ Change(c, "update_entity", id)
    /\ UNCHANGED persons

\* DELETE data/entities/<id> and DELETE data/assets/<id>.
delete_entity(c, id) ==
    /\ \E x \in assets : x.id = id
    /\ assets' = {x \in assets : x.id # id}
    /\ index' = {x \in index : x.id # id}
    /\ Change(c, "delete_entity", id)
    /\ UNCHANGED persons

delete_asset(c, id) ==
    /\ \E x \in assets : x.id = id
    /\ assets' = {x \in assets : x.id # id}
    /\ index' = {x \in index : x.id # id}
    /\ Change(c, "delete_asset", id)
    /\ UNCHANGED persons

\* POST data/persons/new, PUT data/persons/<id>, DELETE data/persons/<id>.
create_person(c, name) ==
    /\ persons' = persons \cup {Person(new_row_id, name)}
    /\ Change(c, "new_person", new_row_id)
    /\ UNCHANGED <<assets, index>>

update_person(c, id, name) ==
    /\ \E x \in persons : x.id = id
    /\ persons' = {IF x.id = id THEN [x EXCEPT !.name = name] ELSE x : x \in persons}
    /\ Change(c, "update_person", id)
    /\ UNCHANGED <<assets, index>>

delete_person(c, id) ==
    /\ \E x \in persons : x.id = id
    /\ persons' = {x \in persons : x.id # id}
    /\ Change(c, "delete_person", id)
    /\ UNCHANGED <<assets, index>>

RowIds == 1..(Cardinality(FixtureAssets) + MaxRequests)

SearchNext ==
    \E c \in Callers :
        \/ \E query \in Queries, admin \in BOOLEAN : SearchResource_post(c, query, admin)
        \/ \E name \in AssetNames, project_id \in Projects : create_asset(c, name, project_id)
        \/ \E id \in RowIds, name \in AssetNames : update_entity(c, id, name)
        \/ \E id \in RowIds : delete_entity(c, id)
        \/ \E id \in RowIds : delete_asset(c, id)
        \/ \E name \in PersonNames : create_person(c, name)
        \/ \E id \in RowIds, name \in PersonNames : update_person(c, id, name)
        \/ \E id \in RowIds : delete_person(c, id)

SearchSpec == Init /\ [][SearchNext]_vars

\* =================================================================== claims
CreationRoutes == {"working", "entity_output", "instance_output"}

Tables == {working_files, output_files}

\* The creations of a key, in creation order.
log_of(key) == SelectSeq(log, LAMBDA e : e.key = key)

AllAuto(key) == \A i \in 1..Len(log_of(key)) : log_of(key)[i].requested = 0

rows_of(key) == {x \in Range(table(key)) : key_of(x) = key}

\* C1: in every reachable state, no two file records of the same kind that
\* share a versioning key have the same revision.
C1_NoDuplicateRevision ==
    \A rows \in Tables : \A i, j \in 1..Len(rows) :
        (i # j /\ key_of(rows[i]) = key_of(rows[j]))
            => rows[i].revision # rows[j].revision

\* Two records of one lineage are stored, one of them after a pinned request.
C1_Witness ==
    \E rows \in Tables : \E i, j \in 1..Len(rows) :
        /\ i # j
        /\ key_of(rows[i]) = key_of(rows[j])
        /\ \E k \in 1..Len(log) : log[k].requested # 0

\* C2: when all the callers have requested a creation with revision 0 on one
\* key, all of them succeed and obtain distinct, consecutive revisions.
C2_AllRacersSucceed ==
    \A key \in Keys :
        (\A c \in Callers : /\ pc[c] = "done"
                            /\ args[c].route \in CreationRoutes
                            /\ args[c].key = key
                            /\ args[c].revision = 0)
        => /\ \A c \in Callers : response[c].status = 201
           /\ Cardinality({response[c].revision : c \in Callers}) = NumCallers
           /\ \A c, d \in Callers :
                response[c].revision - response[d].revision < NumCallers

\* C3: creations with revision 0 served one after another on a key without
\* record obtain 1, 2, ..., k in that order, and none is rejected.
C3_SequentialRevisions ==
    \A key \in Keys :
        AllAuto(key) =>
            /\ \A i \in 1..Len(log_of(key)) : log_of(key)[i].revision = i
            /\ \A c \in Callers :
                (/\ pc[c] = "done"
                 /\ args[c].route \in CreationRoutes
                 /\ args[c].key = key
                 /\ args[c].revision = 0) => response[c].status = 201

\* A lineage holds two auto-assigned revisions and nothing else.
C3_Witness ==
    \E key \in Keys : AllAuto(key) /\ Len(log_of(key)) >= 2

\* The key holds revision rev.
held(key, rev) == \E x \in rows_of(key) : x.revision = rev

\* C4: a creation that pins a revision R # 0 fails with EntryAlreadyExists
\* (answer 400) if and only if the store holds a record of that key and
\* revision when the creation reaches the store; in every other case it
\* succeeds (answer 201), also when R is not max + 1.
C4_PinnedFailsIffExists ==
    [][\A c \in Callers :
        /\ (pc[c] = "w_create" /\ pc'[c] = "done" /\ args[c].revision # 0)
            => response'[c].status =
                 IF held(args[c].key, args[c].revision) THEN 400 ELSE 201
        /\ (pc[c] = "o_insert" /\ pc'[c] # "o_insert" /\ args[c].revision # 0)
            => IF held(args[c].key, args[c].revision)
               THEN pc'[c] = "done" /\ response'[c].status = 400
               ELSE pc'[c] = "o_path"
        /\ (pc[c] = "o_path" /\ pc'[c] = "done") => response'[c].status = 201
      ]_vars

\* A request pinning revision 2 on a key without record has succeeded.
C4_Witness ==
    \E c \in Callers :
        /\ pc[c] = "done"
        /\ args[c].route \in CreationRoutes
        /\ args[c].revision = 2
        /\ response[c].status = 201
        /\ {x.revision : x \in rows_of(args[c].key)} = {2}

\* C5: EntryAlreadyExists reaches the caller of a creation with revision 0
\* only after the retry budget is exhausted, never on the first collision.
C5_RejectedOnlyAfterRetries ==
    \A c \in Callers :
        (/\ pc[c] = "done"
         /\ args[c].route \in CreationRoutes
         /\ args[c].revision = 0
         /\ response[c].status = 400) => retries[c] = MaxRetries

\* C6: every creation request ends, answered 201 (Inserted) or 400
\* (Rejected), after at most MaxRetries retries, whatever the other requests
\* do: once the requests of a run are issued, no worker stays in a handler.
C6_EveryRequestEnds ==
    /\ [](\A c \in Callers : retries[c] <= MaxRetries)
    /\ [](\A c \in Callers :
            (pc[c] = "done" /\ args[c].route \in CreationRoutes)
                => response[c].status \in {201, 400})
    /\ <>[]Quiet

\* A request that collided once has been retried and has succeeded.
C6_Witness ==
    \E c \in Callers :
        pc[c] = "done" /\ retries[c] = 1 /\ response[c].status = 201

\* Request c inserts a record in this step.
Inserts(c) ==
    \/ pc[c] = "w_create" /\ response'[c].status = 201
    \/ pc[c] = "o_insert" /\ pc'[c] = "o_path"

\* C7: the next-revision query answers 1 for a key without record and the
\* maximum stored revision plus 1 otherwise; a creation with revision 0 that
\* follows it, with no other creation on the key in between, stores exactly the
\* answered revision, and the next answer is one more.
C7_NextRevisionThenCreate ==
    /\ [](\A c \in Callers :
            (/\ pc[c] = "done"
             /\ args[c].route = "next_revision"
             /\ response[c].epoch = epoch(args[c].key))
            => response[c].revision =
                 IF rows_of(args[c].key) = {}
                 THEN 1
                 ELSE MaxOf({x.revision : x \in rows_of(args[c].key)}) + 1)
    /\ [][\A c \in Callers :
            (/\ Inserts(c)
             /\ args[c].revision = 0
             /\ fresh[c].next_revision # 0
             /\ fresh[c].epoch = epoch(args[c].key))
            => /\ log'[Len(log')].key = args[c].key
               /\ log'[Len(log')].revision = fresh[c].next_revision
               /\ held(args[c].key, fresh[c].next_revision)'
               /\ IF args[c].route = "working"
                  THEN next_revision(working_files', args[c].key)
                           = fresh[c].next_revision + 1
                  ELSE next_revision(output_files', args[c].key)
                           = fresh[c].next_revision + 1
       ]_vars

\* A creation with revision 0 followed the answer and obtained the answered
\* revision.
C7_Witness ==
    \E c \in Callers :
        /\ pc[c] = "done"
        /\ args[c].route \in CreationRoutes
        /\ args[c].revision = 0
        /\ fresh[c].next_revision # 0
        /\ epoch(args[c].key) = fresh[c].epoch + 1
        /\ response[c].status = 201
        /\ response[c].revision = fresh[c].next_revision

\* What a step of request c may do to a table: the rows stored before are
\* kept as they are, but for the path of the row the request has created; a
\* row that is added has the key and the revision of the request.
Kept(old, new, c) ==
    /\ Len(new) >= Len(old)
    /\ \A i \in 1..Len(old) :
        \/ new[i] = old[i]
        \/ /\ old[i].id = output_file[c]
           /\ old[i].revision = args[c].revision
           /\ new[i] = [old[i] EXCEPT !.path = new[i].path]
    /\ \A i \in (Len(old) + 1)..Len(new) :
        key_of(new[i]) = args[c].key /\ new[i].revision = args[c].revision

\* C8: a creation that pins a revision R # 0 never renumbers or overwrites:
\* on success the stored record has revision R and the records stored before
\* are unchanged; on EntryAlreadyExists the store is unchanged.
C8_PinnedNeverRenumbers ==
    [][\A c \in Callers :
        (/\ args[c].revision # 0
         /\ pc[c] \in {"w_create", "o_insert", "o_path"}
         /\ pc'[c] # pc[c])
        => /\ Kept(working_files, working_files', c)
           /\ Kept(output_files, output_files', c)
           /\ response'[c].status = 400
                => working_files' = working_files /\ output_files' = output_files
           /\ response'[c].status = 201
                => /\ response'[c].revision = args[c].revision
                   /\ held(args[c].key, args[c].revision)'
      ]_vars

\* An instance output pinned on a revision the key already holds was rejected.
C8_Witness ==
    \E c \in Callers :
        /\ pc[c] = "done"
        /\ args[c].route = "instance_output"
        /\ args[c].revision # 0
        /\ response[c].status = 400
        /\ held(args[c].key, args[c].revision)

\* C9: no stored record has revision 0: a requested revision of 0 is replaced
\* by an auto-assigned positive revision before the record is stored.
C9_NoRevisionZero ==
    \A rows \in Tables : \A i \in 1..Len(rows) : rows[i].revision >= 1

\* A working file and an output file were created with revision 0 requested.
C9_Witness ==
    /\ \E i \in 1..Len(log) : log[i].requested = 0 /\ log[i].key \in WorkingKeys
    /\ \E i \in 1..Len(log) : log[i].requested = 0 /\ log[i].key \in OutputKeys

\* C10 as claimed: within one key, the record created later has the strictly
\* larger revision, also when callers pin revisions.
C10_LaterIsLarger ==
    \A rows \in Tables : \A i, j \in 1..Len(rows) :
        (i < j /\ key_of(rows[i]) = key_of(rows[j]))
            => rows[i].revision < rows[j].revision

\* C10 as amended: within one key whose records were all created with revision
\* 0, the record created later has the strictly larger revision.
C10_AutoLaterIsLarger ==
    \A key \in Keys :
        AllAuto(key) =>
            \A i, j \in 1..Len(log_of(key)) :
                i < j => log_of(key)[i].revision < log_of(key)[j].revision

\* Two auto-assigned records of one key, created by racing requests of which
\* one was retried.
C10_Witness ==
    \E key \in Keys :
        /\ AllAuto(key)
        /\ Len(log_of(key)) >= 2
        /\ \E c \in Callers : retries[c] >= 1

\* C11: a record that is deleted is never visible again, and a creation with
\* revision 0 served after the deletion succeeds with the maximum revision of
\* the records that remain plus 1 (1 only when no record of the key remains).
C11_DeletedNeverReturns ==
    /\ [](\A rows \in Tables : \A i \in 1..Len(rows) : rows[i].id \notin deleted)
    /\ [](\A c \in Callers :
            (/\ pc[c] = "done"
             /\ args[c].route \in CreationRoutes
             /\ args[c].revision = 0) => response[c].status = 201)
    /\ [][\A c \in Callers :
            (Inserts(c) /\ args[c].revision = 0)
            => /\ log'[Len(log')].key = args[c].key
               /\ log'[Len(log')].revision =
                    IF rows_of(args[c].key) = {}
                    THEN 1
                    ELSE MaxOf({x.revision : x \in rows_of(args[c].key)}) + 1
       ]_vars

\* Revision 2 of the stored working file was deleted while revision 1 remained,
\* and the creation that followed obtained revision 2.
C11_Witness ==
    /\ deleted = {2}
    /\ {x.revision : x \in rows_of(StoredKey)} = {1, 2}
    /\ \E x \in rows_of(StoredKey) : x.id = 3 /\ x.revision = 2

\* The request that created an output file record is still adding its path.
in_creation(row) == \E c \in Callers : pc[c] = "o_path" /\ output_file[c] = row.id

\* C12: a creation request that has ended, with whatever answer, has left no
\* output file record without its path.
C12_NoPartialRecord ==
    \A i \in 1..Len(output_files) :
        ~in_creation(output_files[i]) => output_files[i].path # NoPath

\* The records of both kinds.
files == Range(working_files) \cup Range(output_files)

\* C13: a record that is stored keeps its revision, its name, its path and its
\* key in every step; only comment and updated_at change.
C13_RecordsImmutable ==
    [][\A x \in files : \A y \in files' :
            y.id = x.id => /\ y.revision = x.revision
                           /\ y.name = x.name
                           /\ y.path = x.path
                           /\ key_of(y) = key_of(x)
      ]_vars

\* The template of the project resolves for the path of a creation request.
resolves(a) ==
    CASE a.route = "working" ->
            ~build_path(a.key.task_id, a.key.name, 1, a.sep).raised
      [] a.route = "entity_output" ->
            ~NewEntityOutputFileResource_add_path_info(a.key, 1, a.sep, a.nb_elements).raised
      [] a.route = "instance_output" ->
            ~NewInstanceOutputFileResource_add_path_info(a.key, 1, a.sep, a.nb_elements).raised

\* C14: template and resolution errors are detected before any mutation: a
\* creation request changes the store (a record, a task assignment) only when
\* the project's template resolves for it, and a creation request that ends
\* with such an error leaves no record it has created.
C14_ErrorsBeforeMutation ==
    [][\A c \in Callers :
        /\ (/\ pc'[c] # pc[c]
            /\ args'[c].route \in CreationRoutes
            /\ \/ working_files' # working_files
               \/ output_files' # output_files
               \/ assigned' # assigned)
           => resolves(args'[c])
        /\ (pc[c] = "o_path" /\ pc'[c] = "done" /\ response'[c].status = 500)
           => \A x \in Range(output_files') : x.id # output_file[c]
      ]_vars

\* The record of a key and revision, as stored after the step.
stored(key, rev) == {x \in files' : key_of(x) = key /\ x.revision = rev}

\* C15: the path stored by a working file creation with separator sep is
\* folder_path + sep + file_name with the folder path built with sep: the path
\* and the name the working-file-path operation returns for the same task,
\* name, separator and revision.
C15_WorkingPathUsesSeparator ==
    [][\A c \in Callers :
        (pc[c] = "w_create" /\ response'[c].status = 201)
        => \A x \in stored(args[c].key, response'[c].revision) :
              x.path = PathInfo(
                  get_working_folder_path(x.task_id, x.name, args[c].sep, x.revision),
                  get_working_file_name(x.task_id, x.name, x.revision),
                  args[c].sep).path
      ]_vars

\* The marker of the frame placeholder.
Marker == "_[1-"

\* C16: the file name returned and the path stored by an output file creation
\* hold the frame placeholder when nb_elements > 1, for entity outputs and for
\* asset instance outputs, and hold none when nb_elements = 1.
C16_SequencePlaceholder ==
    [][\A c \in Callers :
        (pc[c] = "o_path" /\ response'[c].status = 201)
        => /\ Contains(response'[c].file_name, Marker) <=> args[c].nb_elements > 1
           /\ \A x \in stored(args[c].key, response'[c].revision) :
                 Contains(x.path, Marker) <=> args[c].nb_elements > 1
      ]_vars

\* Worker c serves a request of the route in this step.
Served(c, route) ==
    /\ args'[c].route = route
    /\ pc'[c] = "done"
    /\ nb_requests' # nb_requests
    /\ args'[c] # args[c] \/ response'[c] # response[c] \/ pc'[c] # pc[c]

\* C17: the entity output-file-path operation without revision answers the
\* folder path and the file name built with the next revision of the key
\* (entity, output type, task type, name).
C17_EntityPathNextRevision ==
    [][\A c \in Callers :
        (/\ Served(c, "entity_output_path")
         /\ ~args'[c].revision_is_text
         /\ resolves([args'[c] EXCEPT !.route = "entity_output"]))
        => LET key == args'[c].key
               next == next_revision(output_files, key)
           IN  /\ response'[c].status = 200
               /\ response'[c].folder_path =
                    get_output_folder_path(key, args'[c].sep, next).text
               /\ response'[c].file_name = get_output_file_name(key, next, 1).text
      ]_vars

\* C18: the asset instance output-file-path operation without revision answers
\* the folder path and the file name built with the next revision of the key
\* (asset, output type, task type, name, asset instance, temporal entity).
C18_InstancePathNextRevision ==
    [][\A c \in Callers :
        (/\ Served(c, "instance_output_path")
         /\ ~args'[c].revision_is_text
         /\ resolves([args'[c] EXCEPT !.route = "instance_output"]))
        => LET key == args'[c].key
               next == next_revision(output_files, key)
           IN  /\ response'[c].status = 200
               /\ response'[c].folder_path =
                    get_instance_folder_path(key, args'[c].sep, next).text
               /\ response'[c].file_name = get_instance_file_name(key, next, 1).text
      ]_vars

\* C19: the working-file-path operation answers the folder path and the file
\* name built with the next working file revision of (task, name) when the
\* revision is absent or given as 0, and with the given revision otherwise.
C19_WorkingPathRevision ==
    [][\A c \in Callers :
        (/\ Served(c, "working_path")
         /\ resolves([args'[c] EXCEPT !.route = "working"]))
        => LET key == args'[c].key
               r == IF args'[c].revision = 0
                    THEN next_revision(working_files, key)
                    ELSE args'[c].revision
           IN  /\ response'[c].status = 200
               /\ response'[c].folder_path =
                    get_working_folder_path(key.task_id, key.name, args'[c].sep, r).text
               /\ response'[c].file_name =
                    get_working_file_name(key.task_id, key.name, r).text
      ]_vars

\* The step is a request of the route answered by worker c: no other worker
\* moves.  Unlike Served, this holds too when c answers the same request with
\* the same answer as its last one.
Serving(c, route) ==
    /\ args'[c].route = route
    /\ pc'[c] = "done"
    /\ nb_requests' # nb_requests
    /\ \A d \in Callers \ {c} :
            pc'[d] = pc[d] /\ args'[d] = args[d] /\ response'[d] = response[d]

\* C20: a set-file-tree request naming a template that has no file fails and
\* leaves the file tree of the project unchanged; the file tree changes only in
\* a set-file-tree request that loaded its template, and becomes that template.
C20_TreeSetOnlyAfterLoad ==
    [][/\ \A c \in Callers :
            (Served(c, "set_file_tree") /\ get_tree_from_file(args'[c].tree_name).raised)
            => (response'[c].status = 400 /\ file_tree' = file_tree)
       /\ file_tree' # file_tree
            => \E c \in Callers :
                  /\ Serving(c, "set_file_tree")
                  /\ response'[c].status = 200
                  /\ ~get_tree_from_file(args'[c].tree_name).raised
                  /\ file_tree' = TreeFiles[args'[c].tree_name]
      ]_vars

\* A request naming a missing template was refused on a project whose file
\* tree had been set before, and the tree set before is still there.
C20_Witness ==
    \E c \in Callers :
        /\ pc[c] = "done"
        /\ args[c].route = "set_file_tree"
        /\ args[c].tree_name = "missing"
        /\ response[c].status = 400
        /\ file_tree = EpisodicTree

\* The segments of a pattern that are not tokens outside the closed set.
RECURSIVE drop_unknown(_)
drop_unknown(pattern) ==
    IF pattern = <<>>
    THEN <<>>
    ELSE IF is_token(Head(pattern)) /\ Head(pattern) \notin Tokens
    THEN drop_unknown(Tail(pattern))
    ELSE <<Head(pattern)>> \o drop_unknown(Tail(pattern))

\* The patterns of the malformed template files, their unknown tokens dropped.
DroppedPatterns ==
    {drop_unknown(pattern) :
        pattern \in {q \in UNION {patterns(TreeFiles[n]) : n \in DOMAIN TreeFiles} :
                        drop_unknown(q) # q}}

\* The texts a malformed template file would give for a key and revision if
\* its unknown tokens were dropped.
dropped_texts(key, rev) ==
    {substitute(pattern, token_context(key, rev), DefaultSep) : pattern \in DroppedPatterns}

\* C21: the load of a template naming a token outside the closed set fails
\* with MalformedTemplate and the request fails; the file tree of the project
\* is never such a template, and no path answered or stored is the text of a
\* malformed template with its unknown token dropped.
C21_MalformedNeverLoaded ==
    /\ [](well_formed(file_tree))
    /\ [](\A x \in files :
              x.path \notin {f \o DefaultSep \o n :
                                f \in dropped_texts(key_of(x), x.revision),
                                n \in dropped_texts(key_of(x), x.revision)})
    /\ [][\A c \in Callers :
            /\ (/\ Served(c, "set_file_tree")
                /\ args'[c].tree_name \in DOMAIN TreeFiles
                /\ ~well_formed(TreeFiles[args'[c].tree_name]))
               => /\ get_tree_from_file(args'[c].tree_name).error = "MalformedTemplate"
                  /\ response'[c].status # 200
                  /\ file_tree' = file_tree
            /\ (Served(c, "working_path") /\ response'[c].status = 200)
               => \A r \in 0..MaxRevision + 1 :
                     /\ response'[c].folder_path \notin dropped_texts(args'[c].key, r)
                     /\ response'[c].file_name \notin dropped_texts(args'[c].key, r)
      ]_vars

\* A request selecting the malformed template has failed on a project whose
\* file tree had been set before; a path is then answered from that tree.
C21_Witness ==
    \E c, d \in Callers :
        /\ pc[c] = "done"
        /\ args[c].route = "set_file_tree"
        /\ args[c].tree_name = "malformed"
        /\ response[c].status = 500
        /\ pc[d] = "done"
        /\ args[d].route = "working_path"
        /\ response[d].status = 200

\* The templates a project can have.
Templates == {TreeFiles[n] : n \in {m \in DOMAIN TreeFiles : well_formed(TreeFiles[m])}}

\* C22: the folder path and the file name answered by a working-file-path
\* request are built from one single template, also when the template of the
\* project changes while the request is served.
C22_OneTemplatePerPath ==
    [][\A c \in Callers :
        (pc[c] = "p_name" /\ response'[c].status = 200)
        => \E tree \in Templates :
              LET context == token_context(args[c].key, revision[c])
              IN  /\ response'[c].folder_path =
                        substitute(tree.working.folder_path, context, args[c].sep)
                  /\ response'[c].file_name =
                        substitute(tree.working.file_name, context, DefaultSep)
      ]_vars

\* The next revision of a key, as the store gives it.
next_of(key) == next_revision(table(key), key)

\* The records that match the whole tuple of a key.
matching(key) ==
    {x \in files :
        /\ x.entity_id = key.entity_id
        /\ x.task_id = key.task_id
        /\ x.output_type_id = key.output_type_id
        /\ x.task_type_id = key.task_type_id
        /\ x.name = key.name
        /\ x.asset_instance_id = key.asset_instance_id
        /\ x.temporal_entity_id = key.temporal_entity_id}

store == <<working_files, output_files, softwares, file_tree, assigned, assets, persons>>

ReadRoutes == {"working_path", "entity_output_path", "instance_output_path", "next_revision"}

\* C27: the path-generation operations and the next-revision operations are
\* read-only: the step that serves one leaves every row of the store as it
\* was, no file record, software or other row is created or changed.
C27_PathRequestsReadOnly ==
    [][\A c \in Callers :
        (\E route \in ReadRoutes : Served(c, route)) => store' = store
      ]_vars

OutputRoutes == {"entity_output", "instance_output"}

\* Worker c takes a request in this step.
Takes(c) == pc[c] \in {"idle", "done"} /\ nb_requests' # nb_requests /\ pc'[c] # pc[c]

\* C28: an output file creation whose working_file_id is absent or names no
\* working file of the store is not refused: the handler goes on to the
\* creation with no source working file, the record is stored without one and
\* the request is never answered 404; an existing working file is kept as the
\* source.
C28_MissingWorkingFileIgnored ==
    /\ [](\A c \in Callers :
            (pc[c] = "done" /\ args[c].route \in OutputRoutes)
            => response[c].status # 404)
    /\ [][\A c \in Callers :
            /\ (Takes(c) /\ args'[c].route \in OutputRoutes)
                => /\ pc'[c] = "o_insert"
                   /\ args'[c].id = IF working_file_exists(args'[c].working_file_id)
                                    THEN args'[c].working_file_id
                                    ELSE 0
            /\ (Inserts(c) /\ args[c].route \in OutputRoutes)
                => \E x \in Range(output_files') :
                      /\ x.id = output_file'[c]
                      /\ x.working_file_id = args[c].id
      ]_vars

\* An entity output was created with no working_file_id and an asset instance
\* output with a working_file_id that names no working file; both records are
\* stored with no source working file.
C28_Witness ==
    \E c, d \in Callers :
        /\ pc[c] = "done" /\ args[c].route = "entity_output"
        /\ args[c].working_file_id = 0 /\ response[c].status = 201
        /\ pc[d] = "done" /\ args[d].route = "instance_output"
        /\ args[d].working_file_id # 0
        /\ ~working_file_exists(args[d].working_file_id)
        /\ response[d].status = 201
        /\ \A x \in Range(output_files) : x.working_file_id = 0

\* The value of a text of decimal digits.
digit(ch) ==
    CASE ch = "0" -> 0 [] ch = "1" -> 1 [] ch = "2" -> 2 [] ch = "3" -> 3
      [] ch = "4" -> 4 [] ch = "5" -> 5 [] ch = "6" -> 6 [] ch = "7" -> 7
      [] ch = "8" -> 8 [] ch = "9" -> 9 [] OTHER -> -1

RECURSIVE parse_decimal(_)
parse_decimal(s) ==
    IF Len(s) = 0
    THEN 0
    ELSE LET d == digit(SubSeq(s, Len(s), Len(s)))
             front == parse_decimal(SubSeq(s, 1, Len(s) - 1))
         IN  IF d < 0 \/ front < 0 THEN -1 ELSE 10 * front + d

\* The text ends with the revision written on 3 digits.
EndsWithRevision(text, rev) ==
    /\ Len(text) >= 3
    /\ parse_decimal(SubSeq(text, Len(text) - 2, Len(text))) = rev
    /\ Len(text) > 3 => digit(SubSeq(text, Len(text) - 3, Len(text) - 3)) < 0

\* C26: the Revision token is replaced by the revision zero-padded to 3
\* digits, the stored revision stays the integer, and the pattern
\* <Project>/<Task>/<Name>_v<Revision> with Project kitsu, Task modeling, Name
\* main and Revision 3 expands to kitsu/modeling/main_v003.
C26_RevisionPadded ==
    /\ (expanded # NoExpansion /\ expanded.pattern[Len(expanded.pattern)] = "<Revision>")
        => EndsWithRevision(expanded.text, expanded.revision)
    /\ (expanded.pattern = ExamplePattern /\ expanded.key = ExampleKey /\ expanded.revision = 3)
        => expanded.text = "kitsu/modeling/main_v003"
    /\ \A x \in Range(working_files) :
            /\ x.revision \in 1..(MaxRevision + MaxRequests)
            /\ EndsWithRevision(x.path, x.revision)

\* The example has been expanded for revision 3.
C26_Witness ==
    /\ expanded.pattern = ExamplePattern
    /\ expanded.key = ExampleKey
    /\ expanded.revision = 3
    /\ expanded.text = "kitsu/modeling/main_v003"

\* The projects whose assets a search may return to its caller.
visible(admin) == IF admin THEN open_projects ELSE get_open_projects

\* The name begins with the query, case apart.
starts_with(name, query) ==
    /\ Len(query) <= Len(name)
    /\ lower(SubSeq(name, 1, Len(query))) = lower(query)

\* C30: a search whose query has fewer than 3 characters is answered with an
\* empty asset list and calls neither the project services nor the index; a
\* search whose query has at least 3 characters calls the index and returns
\* every indexed asset of the caller's projects whose name begins with the
\* query.
C30_ShortQueryAnsweredEmpty ==
    [][\A c \in Callers :
          Served(c, "search") =>
              IF Len(args'[c].query) < 3
              THEN body'[c].assets = {} /\ consulted'[c] = {}
              ELSE /\ "index_service" \in consulted'[c]
                   /\ \A d \in index :
                          (d.project_id \in visible(args'[c].admin)
                             /\ starts_with(d.name, args'[c].query))
                          => d \in body'[c].assets]_vars

\* One worker was answered nothing for "fo" although the index holds a
\* matching asset of its projects; the other was answered for "fox".
C30_Witness ==
    \E c, d \in Callers :
        /\ c # d
        /\ pc[c] = "done" /\ args[c].route = "search" /\ args[c].query = "fo"
        /\ body[c].assets = {} /\ consulted[c] = {}
        /\ \E x \in index :
               x.project_id \in visible(args[c].admin) /\ matches(x.name, "fo")
        /\ pc[d] = "done" /\ args[d].route = "search" /\ args[d].query = "fox"
        /\ body[d].assets # {}

\* C29: every asset a search returns belongs to an open project: any open
\* project for an admin, one of the caller's own open projects otherwise.
C29_ResultsInOpenProjects ==
    [][\A c \in Callers :
          Served(c, "search") =>
              \A d \in body'[c].assets :
                  /\ d.project_id \in open_projects
                  /\ ~args'[c].admin => d.project_id \in TeamProjects]_vars

\* A caller who is no admin was answered with assets, while a matching asset
\* sits in an open project that is not theirs and another in a closed one.
C29_Witness ==
    \E c \in Callers :
        /\ pc[c] = "done" /\ args[c].route = "search" /\ ~args[c].admin
        /\ body[c].assets # {}
        /\ \E x \in index :
               /\ matches(x.name, args[c].query)
               /\ x.project_id \in open_projects \ TeamProjects
               /\ x \notin body[c].assets
        /\ \E x \in index :
               /\ matches(x.name, args[c].query)
               /\ x.project_id \notin open_projects
               /\ x \notin body[c].assets

\* C24 as stated: a search returns exactly what the store holds under the
\* query: an asset whose name is the query is returned, and nothing is
\* returned that the store does not hold under a matching name.
C24_SearchReflectsStore ==
    [][\A c \in Callers :
          Served(c, "search") =>
              /\ \A x \in assets' :
                     lower(x.name) = lower(args'[c].query) => x \in body'[c].assets
              /\ \A d \in body'[c].assets :
                     d \in assets' /\ matches(d.name, args'[c].query)]_vars

\* C24, amended: for a query of at least 3 characters and the assets of the
\* projects open to the caller, a search reflects the store: an asset whose
\* name is the query is returned, and every asset returned is in the store
\* under a name that matches the query.
C24_SearchReflectsOpenStore ==
    [][\A c \in Callers :
          Served(c, "search") =>
              /\ \A x \in assets' :
                     (/\ Len(args'[c].query) >= 3
                      /\ x.project_id \in visible(args'[c].admin)
                      /\ lower(x.name) = lower(args'[c].query))
                     => x \in body'[c].assets
              /\ \A d \in body'[c].assets :
                     d \in assets' /\ matches(d.name, args'[c].query)]_vars

\* The first fixture asset was renamed "Ox"; the search on its old name that
\* followed returns the third fixture asset and no longer the first.
C24_Witness ==
    \E c \in Callers :
        /\ pc[c] = "done" /\ args[c].route = "search"
        /\ args[c].query = "fox" /\ args[c].admin
        /\ Asset(1, "Ox", "project1") \in assets
        /\ Asset(3, "Fox", "project3") \in body[c].assets
        /\ \A d \in body[c].assets : d.id # 1

\* C25 as stated: the answer of a search holds, under "persons", exactly the
\* persons of the store whose name matches the query.
C25_PersonsReturned ==
    [][\A c \in Callers :
          Served(c, "search") =>
              /\ "persons" \in DOMAIN body'[c]
              /\ body'[c].persons = {x \in persons' : matches(x.name, args'[c].query)}]_vars

====
